---------------------------- MODULE Spec2Model ----------------------------
(***************************************************************************)
(* Conway's Game of Life on a toroidal grid (GOLcpp.cpp).                  *)
(*                                                                         *)
(* The model follows main(): SDL set-up, InitGrid, then the run loop that  *)
(* polls events, calls CalculateNextGeneration and updates the window.     *)
(* InitGrid and CalculateNextGeneration advance one cell per step, so the  *)
(* working buffer gridCopy and the window surface are visible mid-pass.    *)
(*                                                                         *)
(* The source fixes gridWidth = gridHeight = 200, cellSize = 4 and         *)
(* percentageInit = 10.  Here they are state, set in Init: every torus of  *)
(* at most MaxDim x MaxDim and MaxCells cells, cells ModelCellSize pixels  *)
(* wide, and percentageInit from PercentChoices.                           *)
(*                                                                         *)
(* Assumed of SDL: SDL_GetWindowSurface returns a 32-bit surface whose     *)
(* pitch is screenWidth * 4 bytes.                                         *)
(***************************************************************************)
EXTENDS Integers, FiniteSets, Sequences, TLC

VARIABLES
    pc,             \* position of main()
    gridWidth,      \* GOLcpp.cpp:18
    gridHeight,     \* GOLcpp.cpp:19
    cellSize,       \* GOLcpp.cpp:16
    percentageInit, \* GOLcpp.cpp:28
    grid,           \* main's grid (the current buffer, g)
    gridCopy,       \* main's gridCopy (the working buffer, gCopy)
    pixels,         \* windowSurface->pixels, one entry per byte
    i, j,           \* InitGrid's loop indices
    x, y,           \* CalculateNextGeneration's loop indices
    quit,           \* main's quit flag
    exitCode,       \* main's return value, -1 while running
    gPre,           \* history: grid at entry of the running/last step
    drawCount       \* history: DrawCell calls per cell in the current pass

vars == <<pc, gridWidth, gridHeight, cellSize, percentageInit, grid, gridCopy,
          pixels, i, j, x, y, quit, exitCode, gPre, drawCount>>

(***************************************************************************)
(* Bounds of the model.                                                    *)
(***************************************************************************)
MaxDim == 4
MaxCells == 9
ModelCellSize == 2
MaxBlinkerDim == 6

(***************************************************************************)
(* Program constants.                                                      *)
(***************************************************************************)
white == 255
black == 0

\* Values of "rand() % (unsigned int)100": of 0 .. 99, the least, the greatest
\* and the two around the source's percentageInit
RandMod100 == {0, 9, 10, 99}

\* Values tried for the configuration variable percentageInit (source: 10)
PercentChoices == {0, 10, 100, 150}

\* Bytes an uninitialised stack array may hold (a sample of 0..255)
UninitBytes == {0, 1, 205}

Cells(W, H) == (0 .. W - 1) \X (0 .. H - 1)

UninitBuffers(W, H) == { [c \in Cells(W, H) |-> b] : b \in UninitBytes }

screenWidth == cellSize * gridWidth
screenHeight == cellSize * gridHeight

SurfaceBytes(cs, W, H) == 0 .. (cs * W * cs * H * 4 - 1)

NoCalls(W, H) == [c \in Cells(W, H) |-> 0]

(***************************************************************************)
(* DrawCell: the byte offsets it writes and the surface it leaves.         *)
(***************************************************************************)
\* as DrawOffsets, with x and y exchanged in the address
DrawOffsetsSwapped(cx, cy) ==
    LET pixel_ptr == (cx * cellSize * screenWidth + cy * cellSize) * 4
    IN  { pixel_ptr + ii * (screenWidth * 4) + jj * 4 + k :
            ii \in 0 .. cellSize - 1, jj \in 0 .. cellSize - 1, k \in 0 .. 2 }

DrawOffsets(cx, cy) ==
    LET pixel_ptr == (cy * cellSize * screenWidth + cx * cellSize) * 4
    IN  { pixel_ptr + ii * (screenWidth * 4) + jj * 4 + k :
            ii \in 0 .. cellSize - 1, jj \in 0 .. cellSize - 1, k \in 0 .. 2 }

\* The stores "*(pixel_ptr + ...) = colour" into a Uint8
Store(px, offs, colour) ==
    [o \in DOMAIN px |-> IF o \in offs THEN colour % 256 ELSE px[o]]

DrawCell(px, cx, cy, colour) == Store(px, DrawOffsets(cx, cy), colour)

(***************************************************************************)
(* LiveNeighbourCount: the eight reads, in the order of the source.        *)
(***************************************************************************)
\* as NeighbourReads, with the right edge clamped instead of wrapped
NeighbourReadsClamped(cx, cy) ==
    LET isLeftEdge   == (cx = 0)
        isRightEdge  == (cx = gridWidth - 1)
        isTopEdge    == (cy = 0)
        isBottomEdge == (cy = gridHeight - 1)
        xL == IF isLeftEdge THEN gridWidth - 1 ELSE cx - 1
        xR == IF isRightEdge THEN gridWidth - 1 ELSE cx + 1
        yT == IF isTopEdge THEN gridHeight - 1 ELSE cy - 1
        yB == IF isBottomEdge THEN 0 ELSE cy + 1
    IN  << <<xL, yT>>, <<cx, yT>>, <<xR, yT>>,
           <<xL, cy>>,             <<xR, cy>>,
           <<xL, yB>>, <<cx, yB>>, <<xR, yB>> >>

NeighbourReads(cx, cy) ==
    LET isLeftEdge   == (cx = 0)
        isRightEdge  == (cx = gridWidth - 1)
        isTopEdge    == (cy = 0)
        isBottomEdge == (cy = gridHeight - 1)
        xL == IF isLeftEdge THEN gridWidth - 1 ELSE cx - 1
        xR == IF isRightEdge THEN 0 ELSE cx + 1
        yT == IF isTopEdge THEN gridHeight - 1 ELSE cy - 1
        yB == IF isBottomEdge THEN 0 ELSE cy + 1
    IN  << <<xL, yT>>, <<cx, yT>>, <<xR, yT>>,
           <<xL, cy>>,             <<xR, cy>>,
           <<xL, yB>>, <<cx, yB>>, <<xR, yB>> >>

RECURSIVE SumReads(_, _, _)
SumReads(reads, g, k) ==
    IF k = 0 THEN 0
    ELSE SumReads(reads, g, k - 1) + (IF g[reads[k]] = 1 THEN 1 ELSE 0)

LiveNeighbourCount(cx, cy, g) ==
    LET reads == NeighbourReads(cx, cy)
    IN  SumReads(reads, g, Len(reads))

(***************************************************************************)
(* The branch CalculateNextGeneration takes for one cell: the value it     *)
(* stores in gCopy and the colour it hands to DrawCell.                    *)
(***************************************************************************)
\* as NextCell, with "||" for "&&" in the live branch
NextCellOr(cur, neighbourCount) ==
    IF cur = 1
    THEN IF (neighbourCount # 2) \/ (neighbourCount # 3)
         THEN [cell |-> 0, colour |-> black]
         ELSE [cell |-> 1, colour |-> white]
    ELSE IF neighbourCount = 3
         THEN [cell |-> 1, colour |-> white]
         ELSE [cell |-> 0, colour |-> black]

\* as NextCell, with the test of the dead branch inverted
NextCellInverted(cur, neighbourCount) ==
    IF cur = 1
    THEN IF (neighbourCount # 2) /\ (neighbourCount # 3)
         THEN [cell |-> 0, colour |-> black]
         ELSE [cell |-> 1, colour |-> white]
    ELSE IF neighbourCount # 3
         THEN [cell |-> 1, colour |-> white]
         ELSE [cell |-> 0, colour |-> black]

NextCell(cur, neighbourCount) ==
    IF cur = 1
    THEN IF (neighbourCount # 2) /\ (neighbourCount # 3)
         THEN [cell |-> 0, colour |-> black]
         ELSE [cell |-> 1, colour |-> white]
    ELSE IF neighbourCount = 3
         THEN [cell |-> 1, colour |-> white]
         ELSE [cell |-> 0, colour |-> black]

\* InitGrid's assignment to g[i][j]
InitCellValue(r) == IF r < percentageInit THEN 1 ELSE 0

(***************************************************************************)
(* Initial state: main() entered, both stack arrays uninitialised.         *)
(***************************************************************************)
Init ==
    /\ pc = "sdl_init"
    /\ gridWidth \in 1 .. MaxDim
    /\ gridHeight \in 1 .. MaxDim
    /\ gridWidth * gridHeight <= MaxCells
    /\ cellSize = ModelCellSize
    /\ percentageInit \in PercentChoices
    /\ grid \in UninitBuffers(gridWidth, gridHeight)
    /\ gridCopy \in UninitBuffers(gridWidth, gridHeight)
    /\ pixels = [o \in SurfaceBytes(cellSize, gridWidth, gridHeight) |-> 128]
    /\ i = 0 /\ j = 0 /\ x = 0 /\ y = 0
    /\ quit = FALSE
    /\ exitCode = -1
    /\ gPre = grid
    /\ drawCount = NoCalls(gridWidth, gridHeight)

(***************************************************************************)
(* main(): set-up.                                                         *)
(***************************************************************************)
SDLInitFails ==
    /\ pc = "sdl_init"
    /\ pc' = "done"
    /\ exitCode' = 1
    /\ UNCHANGED <<gridWidth, gridHeight, cellSize, percentageInit, grid,
                   gridCopy, pixels, i, j, x, y, quit, gPre,
                   drawCount>>

SDLInitOk ==
    /\ pc = "sdl_init"
    /\ pc' = "create_window"
    /\ UNCHANGED <<gridWidth, gridHeight, cellSize, percentageInit, grid,
                   gridCopy, pixels, i, j, x, y, quit, exitCode, gPre, drawCount>>

CreateWindowFails ==
    /\ pc = "create_window"
    /\ pc' = "done"
    /\ exitCode' = 1
    /\ UNCHANGED <<gridWidth, gridHeight, cellSize, percentageInit, grid,
                   gridCopy, pixels, i, j, x, y, quit, gPre,
                   drawCount>>

\* window created, surface fetched, InitGrid(grid) entered
CreateWindowOk ==
    /\ pc = "create_window"
    /\ pc' = "init_grid"
    /\ i' = 0 /\ j' = 0
    /\ drawCount' = NoCalls(gridWidth, gridHeight)
    /\ UNCHANGED <<gridWidth, gridHeight, cellSize, percentageInit, grid,
                   gridCopy, pixels, x, y, quit, exitCode, gPre>>

(***************************************************************************)
(* InitGrid: one iteration of the inner loop body.                         *)
(***************************************************************************)
InitGridCell ==
    /\ pc = "init_grid"
    /\ \E r \in RandMod100 :
         LET v == InitCellValue(r)
             g1 == [grid EXCEPT ![<<i, j>>] = v]
             lastRow == (j + 1 = gridHeight)
             lastCell == lastRow /\ (i + 1 = gridWidth)
         IN  /\ grid' = g1
             /\ pixels' = DrawCell(pixels, i, j, IF v = 1 THEN white ELSE black)
             /\ drawCount' = [drawCount EXCEPT ![<<i, j>>] = @ + 1]
             /\ j' = IF lastRow THEN 0 ELSE j + 1
             /\ i' = IF lastRow THEN i + 1 ELSE i
             /\ pc' = IF lastCell THEN "loop_test" ELSE "init_grid"
             /\ gPre' = IF lastCell THEN g1 ELSE gPre
    /\ UNCHANGED <<gridWidth, gridHeight, cellSize, percentageInit, gridCopy,
                   x, y, quit, exitCode>>

(***************************************************************************)
(* main(): the run loop.                                                   *)
(***************************************************************************)
\* while (!quit) taken
LoopEnter ==
    /\ pc = "loop_test"
    /\ ~quit
    /\ pc' = "poll"
    /\ UNCHANGED <<gridWidth, gridHeight, cellSize, percentageInit, grid,
                   gridCopy, pixels, i, j, x, y, quit, exitCode, gPre, drawCount>>

\* while (!quit) left: pause, SDL_DestroyWindow, SDL_Quit, return 0
LoopExit ==
    /\ pc = "loop_test"
    /\ quit
    /\ pc' = "done"
    /\ exitCode' = 0
    /\ UNCHANGED <<gridWidth, gridHeight, cellSize, percentageInit, grid,
                   gridCopy, pixels, i, j, x, y, quit, gPre,
                   drawCount>>

\* SDL_PollEvent returned an SDL_QUIT event (an event of any other type
\* changes nothing and the inner loop polls again)
PollQuit ==
    /\ pc = "poll"
    /\ ~quit
    /\ quit' = TRUE
    /\ UNCHANGED <<pc, gridWidth, gridHeight, cellSize, percentageInit, grid,
                   gridCopy, pixels, i, j, x, y, exitCode, gPre,
                   drawCount>>

\* SDL_PollEvent returned 0: the inner loop ends and
\* CalculateNextGeneration(grid, gridCopy) is entered
PollEmpty ==
    /\ pc = "poll"
    /\ pc' = "calc"
    /\ x' = 0 /\ y' = 0
    /\ gPre' = grid
    /\ drawCount' = NoCalls(gridWidth, gridHeight)
    /\ UNCHANGED <<gridWidth, gridHeight, cellSize, percentageInit, grid,
                   gridCopy, pixels, i, j, quit, exitCode>>

(***************************************************************************)
(* CalculateNextGeneration: one iteration of the inner loop body.          *)
(***************************************************************************)
\* as CalcCell, with the neighbours counted in gCopy
CalcCellReadsCopy ==
    /\ pc = "calc"
    /\ LET neighbourCount == LiveNeighbourCount(x, y, gridCopy)
           b == NextCell(grid[<<x, y>>], neighbourCount)
           lastRow == (y + 1 = gridHeight)
           lastCell == lastRow /\ (x + 1 = gridWidth)
       IN  /\ gridCopy' = [gridCopy EXCEPT ![<<x, y>>] = b.cell]
           /\ pixels' = DrawCell(pixels, x, y, b.colour)
           /\ drawCount' = [drawCount EXCEPT ![<<x, y>>] = @ + 1]
           /\ y' = IF lastRow THEN 0 ELSE y + 1
           /\ x' = IF lastRow THEN x + 1 ELSE x
           /\ pc' = IF lastCell THEN "memcpy" ELSE "calc"
    /\ UNCHANGED <<gridWidth, gridHeight, cellSize, percentageInit, grid,
                   i, j, quit, exitCode, gPre>>

\* as CalcCell, with the new value stored in g as well
CalcCellInPlace ==
    /\ pc = "calc"
    /\ LET neighbourCount == LiveNeighbourCount(x, y, grid)
           b == NextCell(grid[<<x, y>>], neighbourCount)
           lastRow == (y + 1 = gridHeight)
           lastCell == lastRow /\ (x + 1 = gridWidth)
       IN  /\ gridCopy' = [gridCopy EXCEPT ![<<x, y>>] = b.cell]
           /\ grid' = [grid EXCEPT ![<<x, y>>] = b.cell]
           /\ pixels' = DrawCell(pixels, x, y, b.colour)
           /\ drawCount' = [drawCount EXCEPT ![<<x, y>>] = @ + 1]
           /\ y' = IF lastRow THEN 0 ELSE y + 1
           /\ x' = IF lastRow THEN x + 1 ELSE x
           /\ pc' = IF lastCell THEN "memcpy" ELSE "calc"
    /\ UNCHANGED <<gridWidth, gridHeight, cellSize, percentageInit,
                   i, j, quit, exitCode, gPre>>

\* as CalcCell, storing only the cells whose value changes
CalcCellChangesOnly ==
    /\ pc = "calc"
    /\ LET neighbourCount == LiveNeighbourCount(x, y, grid)
           b == NextCell(grid[<<x, y>>], neighbourCount)
           lastRow == (y + 1 = gridHeight)
           lastCell == lastRow /\ (x + 1 = gridWidth)
       IN  /\ gridCopy' = IF b.cell = grid[<<x, y>>] THEN gridCopy
                        ELSE [gridCopy EXCEPT ![<<x, y>>] = b.cell]
           /\ pixels' = DrawCell(pixels, x, y, b.colour)
           /\ drawCount' = [drawCount EXCEPT ![<<x, y>>] = @ + 1]
           /\ y' = IF lastRow THEN 0 ELSE y + 1
           /\ x' = IF lastRow THEN x + 1 ELSE x
           /\ pc' = IF lastCell THEN "memcpy" ELSE "calc"
    /\ UNCHANGED <<gridWidth, gridHeight, cellSize, percentageInit, grid,
                   i, j, quit, exitCode, gPre>>

CalcCell ==
    /\ pc = "calc"
    /\ LET neighbourCount == LiveNeighbourCount(x, y, grid)
           b == NextCell(grid[<<x, y>>], neighbourCount)
           lastRow == (y + 1 = gridHeight)
           lastCell == lastRow /\ (x + 1 = gridWidth)
       IN  /\ gridCopy' = [gridCopy EXCEPT ![<<x, y>>] = b.cell]
           /\ pixels' = DrawCell(pixels, x, y, b.colour)
           /\ drawCount' = [drawCount EXCEPT ![<<x, y>>] = @ + 1]
           /\ y' = IF lastRow THEN 0 ELSE y + 1
           /\ x' = IF lastRow THEN x + 1 ELSE x
           /\ pc' = IF lastCell THEN "memcpy" ELSE "calc"
    /\ UNCHANGED <<gridWidth, gridHeight, cellSize, percentageInit, grid,
                   i, j, quit, exitCode, gPre>>

\* memcpy(g, gCopy, sizeof(g)) and return
Memcpy ==
    /\ pc = "memcpy"
    /\ grid' = gridCopy
    /\ pc' = "update_surface"
    /\ UNCHANGED <<gridWidth, gridHeight, cellSize, percentageInit, gridCopy,
                   pixels, i, j, x, y, quit, exitCode, gPre, drawCount>>

\* SDL_UpdateWindowSurface(window)
UpdateWindowSurface ==
    /\ pc = "update_surface"
    /\ pc' = "loop_test"
    /\ UNCHANGED <<gridWidth, gridHeight, cellSize, percentageInit, grid,
                   gridCopy, pixels, i, j, x, y, quit, exitCode, gPre, drawCount>>

Next ==
    \/ SDLInitFails
    \/ SDLInitOk
    \/ CreateWindowFails
    \/ CreateWindowOk
    \/ InitGridCell
    \/ LoopEnter
    \/ LoopExit
    \/ PollQuit
    \/ PollEmpty
    \/ CalcCell
    \/ Memcpy
    \/ UpdateWindowSurface

Spec == Init /\ [][Next]_vars

(***************************************************************************)
(* The run loop started on a seeded blinker: the state InitGrid leaves     *)
(* when its draws give a horizontal line of three live cells, on any torus *)
(* of at least 5 x 5 cells, centred on any cell.                           *)
(***************************************************************************)
HLine(W, H, cx, cy) ==
    [c \in Cells(W, H) |->
        IF c[2] = cy /\ c[1] \in {(cx - 1 + W) % W, cx, (cx + 1) % W}
        THEN 1 ELSE 0]

VLine(W, H, cx, cy) ==
    [c \in Cells(W, H) |->
        IF c[1] = cx /\ c[2] \in {(cy - 1 + H) % H, cy, (cy + 1) % H}
        THEN 1 ELSE 0]

\* The surface once every cell of g has been drawn in its colour
Painted(px, g, W) ==
    [o \in DOMAIN px |->
        IF o % 4 = 3 THEN px[o]
        ELSE LET p == o \div 4
                 c == <<(p % (cellSize * W)) \div cellSize,
                        (p \div (cellSize * W)) \div cellSize>>
             IN  IF g[c] = 1 THEN white ELSE black]

InitBlinker ==
    /\ pc = "loop_test"
    /\ gridWidth \in 5 .. MaxBlinkerDim
    /\ gridHeight \in 5 .. MaxBlinkerDim
    /\ cellSize = 1
    /\ percentageInit = 10
    /\ \E c \in Cells(gridWidth, gridHeight) :
         grid = HLine(gridWidth, gridHeight, c[1], c[2])
    /\ gridCopy = [c \in Cells(gridWidth, gridHeight) |-> 205]
    /\ pixels = Painted([o \in SurfaceBytes(cellSize, gridWidth, gridHeight)
                            |-> 128], grid, gridWidth)
    /\ i = gridWidth /\ j = 0 /\ x = 0 /\ y = 0
    /\ quit = FALSE
    /\ exitCode = -1
    /\ gPre = grid
    /\ drawCount = [c \in Cells(gridWidth, gridHeight) |-> 1]

NextBlinker ==
    \/ LoopEnter
    \/ LoopExit
    \/ PollQuit
    \/ PollEmpty
    \/ CalcCell
    \/ Memcpy
    \/ UpdateWindowSurface

SpecBlinker == InitBlinker /\ [][NextBlinker]_vars

(***************************************************************************)
(* Reference definitions the properties are stated with.                   *)
(***************************************************************************)
AllCells == Cells(gridWidth, gridHeight)

\* grid has been seeded by a completed InitGrid
Seeded ==
    \/ pc \in {"loop_test", "poll", "calc", "memcpy", "update_surface"}
    \/ pc = "done" /\ exitCode = 0

\* CalculateNextGeneration has passed cell c in the running step
Passed(c) ==
    \/ pc = "memcpy"
    \/ pc = "calc" /\ (c[1] < x \/ (c[1] = x /\ c[2] < y))

RuleTable(state, n) ==
    CASE state = 1 /\ n < 2       -> 0
      [] state = 1 /\ n \in {2, 3} -> 1
      [] state = 1 /\ n > 3       -> 0
      [] state # 1 /\ n = 3       -> 1
      [] state # 1 /\ n # 3       -> 0

Offsets == ({-1, 0, 1} \X {-1, 0, 1}) \ {<<0, 0>>}

TorusNeighbour(c, d) ==
    <<(c[1] + d[1] + gridWidth) % gridWidth,
      (c[2] + d[2] + gridHeight) % gridHeight>>

TorusCount(c, g) ==
    Cardinality({d \in Offsets : g[TorusNeighbour(c, d)] = 1})

StepOf(g) == [c \in DOMAIN g |-> RuleTable(g[c], TorusCount(c, g))]

Range(f) == { f[k] : k \in DOMAIN f }

LiveCells(g) == { c \in DOMAIN g : g[c] = 1 }

AllDead(g) == \A c \in DOMAIN g : g[c] = 0

\* The bytes of the surface that show cell c
CellBytes(c) ==
    { ((c[2] * cellSize + py) * screenWidth + (c[1] * cellSize + px)) * 4 + k :
        py \in 0 .. cellSize - 1, px \in 0 .. cellSize - 1, k \in 0 .. 2 }

ShownAs(c, colour) == \A o \in CellBytes(c) : pixels[o] = colour

ColourOf(state) == IF state = 1 THEN white ELSE black

(***************************************************************************)
(* C1: every value CalculateNextGeneration has stored in gCopy for a cell  *)
(* is the rule table's value for that cell's state in g and the count      *)
(* LiveNeighbourCount returned for it.                                     *)
(***************************************************************************)
C1_RuleTable ==
    \A c \in AllCells :
        Passed(c) =>
            gridCopy[c] = RuleTable(grid[c], LiveNeighbourCount(c[1], c[2], grid))

\* a 3 x 3 step done on three live cells: survival (n = 2) and birth (n = 3)
C1_Witness ==
    /\ pc = "memcpy"
    /\ gridWidth = 3 /\ gridHeight = 3
    /\ Cardinality(LiveCells(grid)) = 3
    /\ \A c \in AllCells : gridCopy[c] = 1

(***************************************************************************)
(* C2: on every grid a step is about to run on and for every cell,         *)
(* LiveNeighbourCount reads only indices inside the grid, reads exactly    *)
(* the eight toroidal offsets of the cell, and returns the number of those *)
(* offsets that hold a live cell; on 3 x 3, cell (0,0) reads (2,2), (2,0)  *)
(* and (0,2), and the all-live grid gives 8 everywhere.                    *)
(***************************************************************************)
C2_NeighbourCount ==
    pc = "poll" =>
        /\ \A c \in AllCells :
            /\ Range(NeighbourReads(c[1], c[2])) \subseteq AllCells
            /\ Range(NeighbourReads(c[1], c[2]))
                 = { TorusNeighbour(c, d) : d \in Offsets }
            /\ LiveNeighbourCount(c[1], c[2], grid) = TorusCount(c, grid)
        /\ (gridWidth = 3 /\ gridHeight = 3) =>
            /\ {<<2, 2>>, <<2, 0>>, <<0, 2>>} \subseteq Range(NeighbourReads(0, 0))
            /\ (\A c \in AllCells : grid[c] = 1) =>
                 \A c \in AllCells : LiveNeighbourCount(c[1], c[2], grid) = 8

\* a seeded all-live 3 x 3 grid
C2_Witness ==
    /\ pc = "poll"
    /\ gridWidth = 3 /\ gridHeight = 3
    /\ \A c \in AllCells : grid[c] = 1
    /\ LiveNeighbourCount(0, 0, grid) = 8

(***************************************************************************)
(* C3: when CalculateNextGeneration has returned, g holds at every cell    *)
(* the rule applied to the pre-step state and pre-step toroidal count.     *)
(***************************************************************************)
C3_Simultaneous ==
    pc = "update_surface" => grid = StepOf(gPre)

\* a step with a survivor, a birth and a cell that stayed dead
C3_Witness ==
    /\ pc = "update_surface"
    /\ \E c \in AllCells : gPre[c] = 1 /\ grid[c] = 1
    /\ \E c \in AllCells : gPre[c] = 0 /\ grid[c] = 1
    /\ \E c \in AllCells : gPre[c] = 0 /\ grid[c] = 0

(***************************************************************************)
(* C4: while a step runs g keeps its pre-step content, and the copy makes  *)
(* g equal to the whole of gCopy.                                          *)
(***************************************************************************)
C4_BufferIsolation ==
    /\ pc \in {"calc", "memcpy"} => grid = gPre
    /\ pc = "update_surface" => grid = gridCopy

\* mid-step: a cell already stored in gCopy with a value g does not show
C4_Witness ==
    /\ pc = "calc"
    /\ \E c \in AllCells : Passed(c) /\ gridCopy[c] # grid[c]
    /\ \E c \in AllCells : ~Passed(c)

(***************************************************************************)
(* C5: on a torus of at least 5 x 5, a step entered with exactly a         *)
(* horizontal three-cell line leaves exactly the vertical line through the *)
(* same centre, and a step entered with that vertical line leaves the      *)
(* horizontal line again: the seeded blinker has period 2.                 *)
(***************************************************************************)
C5_Blinker ==
    (pc = "update_surface" /\ gridWidth >= 5 /\ gridHeight >= 5) =>
        \A c \in AllCells :
            /\ gPre = HLine(gridWidth, gridHeight, c[1], c[2])
                 => grid = VLine(gridWidth, gridHeight, c[1], c[2])
            /\ gPre = VLine(gridWidth, gridHeight, c[1], c[2])
                 => grid = HLine(gridWidth, gridHeight, c[1], c[2])

\* the second step done on a blinker that straddles the edges of the torus
C5_Witness ==
    /\ pc = "update_surface"
    /\ gPre = VLine(gridWidth, gridHeight, 0, 0)
    /\ grid = HLine(gridWidth, gridHeight, 0, 0)

(***************************************************************************)
(* C6: once the seeded current buffer is entirely dead, no step of the     *)
(* program makes any cell live.                                            *)
(***************************************************************************)
C6_EmptyFixedPoint ==
    [][(Seeded /\ AllDead(grid)) => AllDead(grid')]_vars

\* a step done on an empty grid
C6_Witness ==
    /\ pc = "update_surface"
    /\ gridWidth = 3 /\ gridHeight = 2
    /\ AllDead(gPre) /\ AllDead(grid)

(***************************************************************************)
(* C7: with percentageInit outside 0 .. 100 no cell is seeded and the run  *)
(* loop is never reached.                                                  *)
(***************************************************************************)
C7_ConfigurationError ==
    percentageInit \notin 0 .. 100 =>
        \/ pc \in {"sdl_init", "create_window"}
        \/ pc = "init_grid" /\ i = 0 /\ j = 0
        \/ pc = "done" /\ exitCode # 0

(***************************************************************************)
(* C8: DrawCell writes inside the surface; in every pass each cell passed  *)
(* has been drawn exactly once and the others not yet; the cell shows the  *)
(* colour of the value stored for it, so after a completed step every cell *)
(* shows its state in g.                                                   *)
(***************************************************************************)
C8_Renderer ==
    /\ \A c \in AllCells : DrawOffsets(c[1], c[2]) \subseteq DOMAIN pixels
    /\ pc = "init_grid" =>
         \A c \in AllCells :
            IF c[1] < i \/ (c[1] = i /\ c[2] < j)
            THEN drawCount[c] = 1 /\ ShownAs(c, ColourOf(grid[c]))
            ELSE drawCount[c] = 0
    /\ pc \in {"calc", "memcpy"} =>
         \A c \in AllCells :
            IF Passed(c)
            THEN drawCount[c] = 1 /\ ShownAs(c, ColourOf(gridCopy[c]))
            ELSE drawCount[c] = 0
    /\ pc \in {"loop_test", "poll", "update_surface"} =>
         \A c \in AllCells : drawCount[c] = 1 /\ ShownAs(c, ColourOf(grid[c]))

\* a completed step, cells several pixels wide, the grid not square, live and dead cells on show
C8_Witness ==
    /\ pc = "update_surface"
    /\ cellSize >= 2
    /\ gridWidth # gridHeight
    /\ \E c \in AllCells : grid[c] = 1 /\ ShownAs(c, white)
    /\ \E c \in AllCells : grid[c] = 0 /\ ShownAs(c, black)

(***************************************************************************)
(* C9: once quit is set, no generation step is started.                    *)
(***************************************************************************)
C9_NoStepAfterQuit ==
    [][quit => ~(pc # "calc" /\ pc' = "calc")]_vars

(***************************************************************************)
(* C10: whatever gridCopy held at first, a seeded g holds only 0 and 1,    *)
(* and when the copy is due every cell of gCopy holds the value computed   *)
(* for it from g.                                                          *)
(***************************************************************************)
C10_ScratchNeverLeaks ==
    /\ Seeded => \A c \in AllCells : grid[c] \in {0, 1}
    /\ pc = "memcpy" =>
         \A c \in AllCells :
            gridCopy[c] = NextCell(grid[c], LiveNeighbourCount(c[1], c[2], grid)).cell

\* the first step under way: stored cells beside cells still uninitialised
C10_Witness ==
    /\ pc = "calc"
    /\ \E c \in AllCells : Passed(c) /\ gridCopy[c] \in {0, 1}
    /\ \E c \in AllCells : ~Passed(c) /\ gridCopy[c] = 205

=============================================================================
